---- MODULE Spec2Model ----
(***************************************************************************)
(* A model of the stage control of labthings_sangaboard: BaseStage         *)
(* (src/src/labthings_sangaboard/__init__.py) and its SKR Pico driver      *)
(* SkrPicoThing (src/src/labthings_sangaboard/skrPico.py), together with   *)
(* the remote motion controller (Moonraker) the driver talks to.           *)
(*                                                                         *)
(* Numbers.  The controller reports positions as JSON numbers that need    *)
(* not be whole, and the driver stores them as they come.  Every position  *)
(* of the model is therefore a fixed-point number: an integer count of     *)
(* 1/Resolution of a unit.  A caller's integer n is n * Resolution, and    *)
(* Python's int() is IntOf, truncation toward zero.                        *)
(***************************************************************************)
EXTENDS Integers, Sequences, FiniteSets, TLC

VARIABLES
  built,              \* outcome of constructing the stage object
  ctor,               \* the class constructed and the keyword arguments given
  hardware_position,  \* BaseStage._hardware_position
  axis_inverted,      \* the axis_inverted setting
  moving,             \* the moving property
  entered,            \* __enter__ has completed
  device,             \* position of the remote controller's toolhead
  pc,                 \* per caller: where its call stands
  call,               \* per caller: the call's arguments, request and results
  ncalls,             \* actions invoked since the stage was entered
  frame_in,           \* frame translation: the value given
  frame_out,          \* frame translation: the value after frame_n translations
  frame_n             \* frame translation: translations applied so far

vars == <<built, ctor, hardware_position, axis_inverted, moving, entered,
          device, pc, call, ncalls, frame_in, frame_out, frame_n>>

stage_vars == <<built, ctor, hardware_position, axis_inverted, moving, entered,
                device, pc, call, ncalls>>

frame_vars == <<frame_in, frame_out, frame_n>>

----------------------------------------------------------------------------
(* Bounds of the model *)

\* Sub-steps per unit of position (2: the controller may report halves).
Resolution == 2

\* The controller rejects a move whose target leaves [-MaxPos, MaxPos] units.
MaxPos == 1

\* Actions the hosting layer invokes on an entered stage.
MaxCalls == 2

\* Callers that may have a call in progress.
Callers == {1, 2}

\* The caller through which a hosting layer that serialises actions invokes.
SerialCaller == 1

----------------------------------------------------------------------------
(* Axes and numbers *)

\* BaseStage._axis_names
axis_names == <<"x", "y", "z">>

Axes == {axis_names[i] : i \in 1..Len(axis_names)}

\* A key no stage knows.
UnknownKey == "w"

\* A caller's integer, in sub-steps.
Whole(n) == n * Resolution

Abs(v) == IF v < 0 THEN -v ELSE v

\* int(v): truncation toward zero.
IntOf(v) == IF v >= 0 THEN (v \div Resolution) * Resolution
                      ELSE -(((-v) \div Resolution) * Resolution)

IsWhole(v) == v % Resolution = 0

EmptyMap == [k \in {} |-> 0]

Zeros == [a \in Axes |-> 0]

----------------------------------------------------------------------------
(* Frame translation: BaseStage._apply_axis_direction *)

\* Negate with the sign forced instead of flipped.
NegateForcesSign(pos, inverted) ==
  IF inverted THEN -Abs(IntOf(pos)) ELSE IntOf(pos)

\* One value of a position: -int(pos) if inverted else int(pos).
Negate(pos, inverted) == IF inverted THEN -IntOf(pos) ELSE IntOf(pos)

\* The list / tuple branch with a plain zip, which stops at the shorter of
\* the two.
ApplySequenceTruncating(position, inverted) ==
  LET n == IF Len(position) < Len(axis_names) THEN Len(position)
           ELSE Len(axis_names)
  IN [err |-> "none",
      val |-> [i \in 1..n |-> Negate(position[i], inverted[axis_names[i]])]]

\* The list / tuple branch: values are paired with the inversion flags in
\* axis order; zip(strict=True) raises ValueError on unequal lengths.
ApplySequence(position, inverted) ==
  IF Len(position) # Len(axis_names)
    THEN [err |-> "ValueError", val |-> <<>>]
    ELSE [err |-> "none",
          val |-> [i \in 1..Len(position) |->
                     Negate(position[i], inverted[axis_names[i]])]]

\* The Mapping branch with a lenient lookup (axis_inverted.get(ax, False)).
ApplyMappingLenient(position, inverted) ==
  [err |-> "none",
   val |-> [ax \in DOMAIN position |->
              Negate(position[ax], ax \in DOMAIN inverted /\ inverted[ax])]]

\* The Mapping branch: every key given is looked up in axis_inverted; a key
\* that is not there raises KeyError.
ApplyMapping(position, inverted) ==
  IF \E ax \in DOMAIN position : ax \notin DOMAIN inverted
    THEN [err |-> "KeyError:axis", val |-> EmptyMap]
    ELSE [err |-> "none",
          val |-> [ax \in DOMAIN position |->
                     Negate(position[ax], inverted[ax])]]

\* _apply_axis_direction on a value tagged with its Python type.
apply_axis_direction(kind, position, inverted) ==
  IF kind = "seq" THEN ApplySequence(position, inverted)
  ELSE IF kind = "map" THEN ApplyMapping(position, inverted)
  ELSE [err |-> "TypeError", val |-> <<>>]

\* The position property: the hardware position in the program frame.
position == apply_axis_direction("map", hardware_position, axis_inverted).val

----------------------------------------------------------------------------
(* Construction *)

ConfigKeys == {"moonrakerport", "baseurl", "acceleration", "speed"}

\* The driver of this repository and the shapes a driver subclass can have.
Classes == {"SkrPicoThing", "HooksOnly", "RedefinesRelative",
            "RedefinesAbsolute", "RedefinesBoth"}

RedefinesMoveRelative(c) == c \in {"RedefinesRelative", "RedefinesBoth"}

RedefinesMoveAbsolute(c) == c \in {"RedefinesAbsolute", "RedefinesBoth"}

\* The default of the axis_inverted setting of a class.
DefaultAxisInverted(c) ==
  IF c = "SkrPicoThing"
    THEN [a \in Axes |-> a \in {"x", "z"}]
    ELSE [a \in Axes |-> FALSE]

\* The keyword arguments a class hands on to BaseStage.__init__, which takes
\* none: SkrPicoThing.__init__ reads its configuration from kwargs and passes
\* all of them on.
KwargsPassedToBase(c, kwargs) == IF c = "SkrPicoThing" THEN kwargs ELSE {}

NoCtor == [cls |-> "none", kwargs |-> {}]

\* cls(thing_server_interface, **kwargs)
Construct(c, kwargs) ==
  /\ built = "none"
  /\ ctor' = [cls |-> c, kwargs |-> kwargs]
  /\ IF KwargsPassedToBase(c, kwargs) # {}
       THEN \* BaseStage.__init__() got an unexpected keyword argument
            /\ built' = "TypeError"
            /\ UNCHANGED <<hardware_position, axis_inverted>>
       ELSE /\ hardware_position' = Zeros
            /\ axis_inverted' = DefaultAxisInverted(c)
            /\ built' = IF RedefinesMoveRelative(c) \/ RedefinesMoveAbsolute(c)
                          THEN "RedefinedBaseMovementError"
                          ELSE "ok"
  /\ UNCHANGED <<moving, entered, device, pc, call, ncalls, frame_vars>>

\* The stage the rest of the model drives: a constructed SkrPicoThing.
Ready == built = "ok" /\ ctor.cls = "SkrPicoThing"

----------------------------------------------------------------------------
(* The remote motion controller *)

\* The toolhead positions the controller accepts.
InRange(p) == \A a \in Axes : Abs(p[a]) <= Whole(MaxPos)

\* What the controller may add to a commanded displacement: nothing, or one
\* sub-step on x (hardware that does not execute a command exactly).
Slips == {Zeros, [a \in Axes |-> IF a = "x" THEN 1 ELSE 0]}

\* Where the toolhead may be when the stage is constructed.
InitialDevicePositions ==
  {Zeros, [a \in Axes |-> IF a = "x" THEN 1 ELSE IF a = "z" THEN -Resolution ELSE 0]}

\* The toolhead position a gcode script asks for.
Target(req, from) ==
  IF req.script = "G91" THEN [a \in Axes |-> from[a] + req.disp[a]]
  ELSE IF req.script = "G90" THEN [a \in Axes |-> req.disp[a]]
  ELSE Zeros  \* SET_KINEMATIC_POSITION X=0 Y=0 Z=0

\* toolhead.position in the answer to printer/objects/query: x, y, z and the
\* extruder.
Report(p) == <<p["x"], p["y"], p["z"], 0>>

----------------------------------------------------------------------------
(* Calls *)

Moves == {"move_relative", "move_absolute"}

NoReq == [script |-> "none", disp |-> EmptyMap]

NoCall == [op |-> "none", args |-> EmptyMap, req |-> NoReq,
           gres |-> "none", reported |-> <<>>, exc |-> "none",
           axis |-> "none", direction |-> EmptyMap]

\* The keyword arguments callers give to a move, in units.
ArgValues == {-1, 1}

\* The sets of keys they give: no axis, one axis, the two others, and an axis
\* together with a key that is no axis.
ArgKeySets == {{}, {"z"}, {"x", "y"}, {"x", UnknownKey}}

MoveArgs == UNION {[ks -> {Whole(n) : n \in ArgValues}] : ks \in ArgKeySets}

\* No call is in progress: the hosting layer invokes actions one at a time.
Quiet == \A u \in Callers : pc[u] = "idle"

\* SkrPicoThing.MovementType
MovementType(op) == IF op = "move_relative" THEN "G91" ELSE "G90"

\* The displacement with the values given paired with the axes by position
\* (zip(axis_names, kwargs.values())) instead of by name.
displacementByOrder(kwargs) ==
  LET given == {i \in 1..Len(axis_names) : axis_names[i] \in DOMAIN kwargs}
      nth(k) == CHOOSE i \in given : Cardinality({j \in given : j <= i}) = k
  IN [a \in Axes |->
        LET k == CHOOSE i \in 1..Len(axis_names) : axis_names[i] = a
        IN IF k <= Cardinality(given) THEN kwargs[axis_names[nth(k)]] ELSE 0]

\* move_gcode: the displacement of every axis, 0 for an axis not given.
displacement(kwargs) ==
  [a \in Axes |-> IF a \in DOMAIN kwargs THEN kwargs[a] ELSE 0]

\* The request with the move left out when cancellation is blocked.
GcodeRequestHeedingHint(op, kwargs, block_cancellation) ==
  [script |-> MovementType(op),
   disp |-> IF block_cancellation THEN Zeros ELSE displacement(kwargs)]

\* move_gcode: the script posted to printer/gcode/script, made of the
\* movement type and the displacement; block_cancellation is a parameter of
\* move_gcode that it never reads.
GcodeRequest(op, kwargs, block_cancellation) ==
  [script |-> MovementType(op), disp |-> displacement(kwargs)]

\* moving set only after the post.
MovingSetAfterPost == FALSE

\* move_gcode sets moving before it posts the script.
MovingOnDispatch == TRUE

\* moving cleared after the post, outside any finally block: not when the
\* post raised.
MovingClearedOnSuccessOnly(gres) == gres = "transport"

\* move_gcode's finally block clears moving, however the post ended.
MovingAfterGcode(gres) == FALSE

\* The cached position advanced by what was commanded, not what was reported.
PositionFromCommand(reported, req, old) == Target(req, old)

\* update_position: dict(zip(self.axis_names, toolhead position)); the request
\* that went before and the position cached so far play no part.
PositionFromResponse(reported, req, old) ==
  [a \in Axes |-> reported[CHOOSE i \in 1..Len(axis_names) : axis_names[i] = a]]

\* The exception in flight after a block that was entered with `pending` in
\* flight raised `raised` ("none": it raised nothing).
Propagated(pending, raised) == IF raised # "none" THEN raised ELSE pending

\* One more action is invoked on the entered stage.
Invoke ==
  /\ Ready /\ entered
  /\ ncalls < MaxCalls
  /\ ncalls' = ncalls + 1

\* move_relative / move_absolute: translate the keyword arguments to the
\* hardware frame, then _hardware_move_* -> move_gcode up to `moving = True`.
\* block_cancellation is handed down to move_gcode, which never reads it.
StartMove(t, op, args, block_cancellation) ==
  /\ Invoke
  /\ pc[t] = "idle"
  /\ LET tr == apply_axis_direction("map", args, axis_inverted)
         c  == [NoCall EXCEPT !.op = op, !.args = args]
     IN IF tr.err # "none"
          THEN /\ call' = [call EXCEPT ![t] = [c EXCEPT !.exc = tr.err]]
               /\ pc' = [pc EXCEPT ![t] = "returned"]
               /\ UNCHANGED moving
          ELSE /\ call' = [call EXCEPT ![t] =
                             [c EXCEPT !.req =
                                GcodeRequest(op, tr.val, block_cancellation)]]
               /\ pc' = [pc EXCEPT ![t] = "send"]
               /\ moving' = MovingOnDispatch
  /\ UNCHANGED <<built, ctor, hardware_position, axis_inverted, entered,
                 device, frame_vars>>

\* set_zero_position, and __enter__, which begins with it.
StartZero(t, op) ==
  /\ Ready
  /\ pc[t] = "idle"
  /\ IF op = "__enter__" THEN ~entered /\ UNCHANGED ncalls ELSE Invoke
  /\ call' = [call EXCEPT ![t] =
                [NoCall EXCEPT !.op = op,
                               !.req = [script |-> "SET_KINEMATIC_POSITION",
                                        disp |-> EmptyMap]]]
  /\ pc' = [pc EXCEPT ![t] = "send"]
  /\ UNCHANGED <<built, ctor, hardware_position, axis_inverted, moving,
                 entered, device, frame_vars>>

\* client.post(".../printer/gcode/script"): the request leaves.
SendGcode(t) ==
  /\ pc[t] = "send"
  /\ pc' = [pc EXCEPT ![t] = "gcode"]
  /\ UNCHANGED <<built, ctor, hardware_position, axis_inverted, moving,
                 entered, device, call, ncalls, frame_vars>>

\* What follows the post of the gcode script, which ended as `gres`: a move
\* clears moving and goes on to update_position whatever happened;
\* set_zero_position goes on to update_position unless the post raised.
AfterGcode(t, gres) ==
  LET exc == IF gres = "transport" THEN "HTTPError:gcode" ELSE "none"
  IN /\ call' = [call EXCEPT ![t].gres = gres, ![t].exc = exc]
     /\ IF call[t].op \in Moves
          THEN /\ moving' = MovingAfterGcode(gres)
               /\ pc' = [pc EXCEPT ![t] = "query"]
          ELSE /\ UNCHANGED moving
               /\ pc' = [pc EXCEPT ![t] = IF gres = "transport"
                                            THEN "returned" ELSE "query"]

\* The controller runs the script and answers with a result.
GcodeOk(t, slip) ==
  /\ pc[t] = "gcode"
  /\ LET to == Target(call[t].req, device)
         at == IF call[t].op \in Moves
                 THEN [a \in Axes |-> to[a] + slip[a]] ELSE to
     IN /\ InRange(to) /\ InRange(at)
        /\ device' = at
  /\ AfterGcode(t, "ok")
  /\ UNCHANGED <<built, ctor, hardware_position, axis_inverted, entered,
                 ncalls, frame_vars>>

\* The controller rejects the script and answers with an error body, which
\* .json() parses like any other.
GcodeError(t) ==
  /\ pc[t] = "gcode"
  /\ AfterGcode(t, "error")
  /\ UNCHANGED <<built, ctor, hardware_position, axis_inverted, entered,
                 device, ncalls, frame_vars>>

\* The post raises (connection refused, timeout, a body that is not JSON);
\* the controller may have run the script all the same.
GcodeTransport(t, executed) ==
  /\ pc[t] = "gcode"
  /\ IF executed
       THEN /\ InRange(Target(call[t].req, device))
            /\ device' = Target(call[t].req, device)
       ELSE UNCHANGED device
  /\ AfterGcode(t, "transport")
  /\ UNCHANGED <<built, ctor, hardware_position, axis_inverted, entered,
                 ncalls, frame_vars>>

\* update_position: the query is answered with the toolhead position.
QueryOk(t) ==
  /\ pc[t] = "query"
  /\ call' = [call EXCEPT ![t].reported = Report(device)]
  /\ pc' = [pc EXCEPT ![t] = "assign"]
  /\ UNCHANGED <<built, ctor, hardware_position, axis_inverted, moving,
                 entered, device, ncalls, frame_vars>>

\* update_position fails: the answer is an error body, which has no "result"
\* (KeyError), or the post raises.
QueryFails(t, how) ==
  /\ pc[t] = "query"
  /\ call' = [call EXCEPT ![t].exc = Propagated(@, how)]
  /\ pc' = [pc EXCEPT ![t] = "returned"]
  /\ UNCHANGED <<built, ctor, hardware_position, axis_inverted, moving,
                 entered, device, ncalls, frame_vars>>

\* update_position assigns _hardware_position; the call then returns, or
\* re-raises what the gcode post raised; __enter__ goes on to printer/info.
Assign(t) ==
  /\ pc[t] = "assign"
  /\ hardware_position' =
       PositionFromResponse(call[t].reported, call[t].req, hardware_position)
  /\ pc' = [pc EXCEPT ![t] = IF call[t].op = "__enter__" THEN "info"
                              ELSE "returned"]
  /\ UNCHANGED <<built, ctor, axis_inverted, moving, entered, device, call,
                 ncalls, frame_vars>>

\* __enter__: client.get(".../printer/info"), whose answer is not looked at.
InfoAnswer(t, raises) ==
  /\ pc[t] = "info"
  /\ IF raises
       THEN /\ call' = [call EXCEPT ![t].exc = "HTTPError:info"]
            /\ UNCHANGED entered
       ELSE /\ entered' = TRUE
            /\ UNCHANGED call
  /\ pc' = [pc EXCEPT ![t] = "returned"]
  /\ UNCHANGED <<built, ctor, hardware_position, axis_inverted, moving,
                 device, ncalls, frame_vars>>

\* The flag of the axis set instead of flipped.
FlippedSetsTrue(direction, axis) == [direction EXCEPT ![axis] = TRUE]

\* direction[axis] = not direction[axis]
Flipped(direction, axis) == [direction EXCEPT ![axis] = ~@]

\* The stored setting once `direction` has been changed to `changed`:
\* `direction = self.axis_inverted` binds the stored mapping itself, not a
\* copy of it, so the change is made to the stored mapping.
StoredAfterFlip(stored, changed) == changed

\* invert_axis_direction(axis), up to the assignment of the setting: the
\* lookup of an axis that is not there raises KeyError before anything is
\* written.
InvertAxisDirection(t, axis) ==
  /\ Invoke
  /\ pc[t] = "idle"
  /\ LET c == [NoCall EXCEPT !.op = "invert_axis_direction", !.axis = axis]
     IN IF axis \in DOMAIN axis_inverted
          THEN LET direction == Flipped(axis_inverted, axis)
               IN /\ axis_inverted' = StoredAfterFlip(axis_inverted, direction)
                  /\ call' = [call EXCEPT ![t] =
                                [c EXCEPT !.direction = direction]]
                  /\ pc' = [pc EXCEPT ![t] = "store"]
          ELSE /\ UNCHANGED axis_inverted
               /\ call' = [call EXCEPT ![t] = [c EXCEPT !.exc = "KeyError:axis"]]
               /\ pc' = [pc EXCEPT ![t] = "returned"]
  /\ UNCHANGED <<built, ctor, hardware_position, moving, entered, device,
                 frame_vars>>

\* invert_axis_direction: self.axis_inverted = direction
StoreAxisInverted(t) ==
  /\ pc[t] = "store"
  /\ axis_inverted' = call[t].direction
  /\ pc' = [pc EXCEPT ![t] = "returned"]
  /\ UNCHANGED <<built, ctor, hardware_position, moving, entered, device,
                 call, ncalls, frame_vars>>

\* The caller has its result (call[t].exc: what was raised, "none": nothing).
Return(t) ==
  /\ pc[t] = "returned"
  /\ pc' = [pc EXCEPT ![t] = "idle"]
  /\ call' = [call EXCEPT ![t] = NoCall]
  /\ UNCHANGED <<built, ctor, hardware_position, axis_inverted, moving,
                 entered, device, ncalls, frame_vars>>

----------------------------------------------------------------------------
(* The stage driven by a hosting layer that invokes actions one at a time *)

NoFrame == [kind |-> "none", val |-> <<>>, err |-> "none"]

Init ==
  /\ built = "none"
  /\ ctor = NoCtor
  /\ hardware_position = EmptyMap
  /\ axis_inverted = EmptyMap
  /\ moving = FALSE
  /\ entered = FALSE
  /\ device \in InitialDevicePositions
  /\ pc = [t \in Callers |-> "idle"]
  /\ call = [t \in Callers |-> NoCall]
  /\ ncalls = 0
  /\ frame_in = NoFrame
  /\ frame_out = NoFrame
  /\ frame_n = 0

Next ==
  \/ \E c \in Classes, kw \in SUBSET ConfigKeys : Construct(c, kw)
  \/ \E op \in Moves, args \in MoveArgs, bc \in BOOLEAN :
       Quiet /\ StartMove(SerialCaller, op, args, bc)
  \/ \E op \in {"__enter__", "set_zero_position"} :
       Quiet /\ StartZero(SerialCaller, op)
  \/ \E axis \in Axes \cup {UnknownKey} :
       Quiet /\ InvertAxisDirection(SerialCaller, axis)
  \/ \E t \in Callers : StoreAxisInverted(t)
  \/ \E t \in Callers : SendGcode(t)
  \/ \E t \in Callers, slip \in Slips : GcodeOk(t, slip)
  \/ \E t \in Callers : GcodeError(t)
  \/ \E t \in Callers, executed \in BOOLEAN : GcodeTransport(t, executed)
  \/ \E t \in Callers : QueryOk(t)
  \/ \E t \in Callers, how \in {"KeyError:result", "HTTPError:query"} :
       QueryFails(t, how)
  \/ \E t \in Callers : Assign(t)
  \/ \E t \in Callers, raises \in BOOLEAN : InfoAnswer(t, raises)
  \/ \E t \in Callers : Return(t)

Spec == Init /\ [][Next]_vars

----------------------------------------------------------------------------
(* The same stage and hosting layer with a controller that answers every   *)
(* request: no post raises and every position query is answered.           *)

NextReliable ==
  \/ \E c \in Classes, kw \in SUBSET ConfigKeys : Construct(c, kw)
  \/ \E op \in Moves, args \in MoveArgs, bc \in BOOLEAN :
       Quiet /\ StartMove(SerialCaller, op, args, bc)
  \/ \E op \in {"__enter__", "set_zero_position"} :
       Quiet /\ StartZero(SerialCaller, op)
  \/ \E axis \in Axes \cup {UnknownKey} :
       Quiet /\ InvertAxisDirection(SerialCaller, axis)
  \/ \E t \in Callers : StoreAxisInverted(t)
  \/ \E t \in Callers : SendGcode(t)
  \/ \E t \in Callers, slip \in Slips : GcodeOk(t, slip)
  \/ \E t \in Callers : GcodeError(t)
  \/ \E t \in Callers : QueryOk(t)
  \/ \E t \in Callers : Assign(t)
  \/ \E t \in Callers : InfoAnswer(t, FALSE)
  \/ \E t \in Callers : Return(t)

SpecReliable == Init /\ [][NextReliable]_vars

----------------------------------------------------------------------------
(* The entered stage with moves invoked from two threads of the hosting    *)
(* layer: nothing in move_relative, move_absolute, move_gcode or           *)
(* update_position takes a lock, so a move starts whatever the other       *)
(* caller is doing.  The controller answers every request.                 *)

OnlyMoves == \A u \in Callers : call[u].op \in Moves \cup {"none"}

NextConcurrent ==
  \/ \E c \in Classes, kw \in SUBSET ConfigKeys : Construct(c, kw)
  \/ Quiet /\ StartZero(SerialCaller, "__enter__")
  \/ \E t \in Callers, op \in Moves, args \in MoveArgs, bc \in BOOLEAN :
       OnlyMoves /\ StartMove(t, op, args, bc)
  \/ \E t \in Callers : SendGcode(t)
  \/ \E t \in Callers, slip \in Slips : GcodeOk(t, slip)
  \/ \E t \in Callers : GcodeError(t)
  \/ \E t \in Callers : QueryOk(t)
  \/ \E t \in Callers : Assign(t)
  \/ \E t \in Callers : InfoAnswer(t, FALSE)
  \/ \E t \in Callers : Return(t)

SpecConcurrent == Init /\ [][NextConcurrent]_vars

----------------------------------------------------------------------------
(* A stage with two axes: a subclass of SkrPicoThing whose _axis_names is  *)
(* ("x", "y").  Its axis_inverted setting is the inherited one, with three *)
(* keys, unless the subclass declares its own with two.                    *)

TwoAxisNames == <<"x", "y">>

TwoAxes == {TwoAxisNames[i] : i \in 1..Len(TwoAxisNames)}

\* The keys get_xyz_position reads and move_to_xyz_position passes.
XyzKeys == {"x", "y", "z"}

IsKeyError(exc) == exc \in {"KeyError:axis", "KeyError:position"}

\* move_gcode's displacement on a stage whose axes are `names`: a keyword
\* that is none of them is dropped by kwargs.get.
StageDisplacement(names, kwargs) ==
  [a \in {names[i] : i \in 1..Len(names)} |->
     IF a \in DOMAIN kwargs THEN kwargs[a] ELSE 0]

\* get_xyz_position: reads the position property and indexes it with "x",
\* "y" and "z".
GetXyzPosition(t) ==
  /\ Invoke
  /\ pc[t] = "idle"
  /\ LET position_dict ==
           apply_axis_direction("map", hardware_position, axis_inverted)
         exc == IF position_dict.err # "none" THEN position_dict.err
                ELSE IF XyzKeys \subseteq DOMAIN position_dict.val THEN "none"
                ELSE "KeyError:position"
     IN call' = [call EXCEPT ![t] =
                   [NoCall EXCEPT !.op = "get_xyz_position", !.exc = exc]]
  /\ pc' = [pc EXCEPT ![t] = "returned"]
  /\ UNCHANGED <<built, ctor, hardware_position, axis_inverted, moving,
                 entered, device, frame_vars>>

\* move_to_xyz_position: move_absolute(x=.., y=.., z=..), which translates
\* the three keywords and hands them to move_gcode up to `moving = True`.
MoveToXyzPosition(t, xyz_pos) ==
  /\ Invoke
  /\ pc[t] = "idle"
  /\ LET kwargs == [a \in XyzKeys |->
                      xyz_pos[CHOOSE i \in 1..Len(axis_names) :
                                axis_names[i] = a]]
         tr == apply_axis_direction("map", kwargs, axis_inverted)
         c  == [NoCall EXCEPT !.op = "move_to_xyz_position", !.args = kwargs]
     IN IF tr.err # "none"
          THEN /\ call' = [call EXCEPT ![t] = [c EXCEPT !.exc = tr.err]]
               /\ pc' = [pc EXCEPT ![t] = "returned"]
               /\ UNCHANGED moving
          ELSE /\ call' = [call EXCEPT ![t] =
                             [c EXCEPT !.req =
                                [script |-> MovementType("move_absolute"),
                                 disp |-> StageDisplacement(TwoAxisNames,
                                                            tr.val)]]]
               /\ pc' = [pc EXCEPT ![t] = "send"]
               /\ moving' = MovingOnDispatch
  /\ UNCHANGED <<built, ctor, hardware_position, axis_inverted, entered,
                 device, frame_vars>>

\* The controller runs the G90 script, which names the axes of the stage
\* only, and answers with a result; move_gcode's finally block follows.
XyzGcodeOk(t) ==
  /\ pc[t] = "gcode"
  /\ device' = [a \in Axes |-> IF a \in DOMAIN call[t].req.disp
                                 THEN call[t].req.disp[a] ELSE device[a]]
  /\ call' = [call EXCEPT ![t].gres = "ok"]
  /\ moving' = MovingAfterGcode("ok")
  /\ pc' = [pc EXCEPT ![t] = "query"]
  /\ UNCHANGED <<built, ctor, hardware_position, axis_inverted, entered,
                 ncalls, frame_vars>>

\* update_position assigns dict(zip(self.axis_names, toolhead position)),
\* which stops after the axes of the stage.
XyzAssign(t) ==
  /\ pc[t] = "assign"
  /\ hardware_position' =
       [a \in TwoAxes |->
          call[t].reported[CHOOSE i \in 1..Len(TwoAxisNames) :
                             TwoAxisNames[i] = a]]
  /\ pc' = [pc EXCEPT ![t] = "returned"]
  /\ UNCHANGED <<built, ctor, axis_inverted, moving, entered, device, call,
                 ncalls, frame_vars>>

\* The stage constructed and entered, at any position the controller
\* accepts, with the flags anyhow flipped.
InitXyz ==
  /\ built = "ok"
  /\ ctor = [cls |-> "SkrPicoThing", kwargs |-> {}]
  /\ hardware_position \in [TwoAxes -> {Whole(n) : n \in -MaxPos..MaxPos}]
  /\ axis_inverted \in [Axes -> BOOLEAN] \cup [TwoAxes -> BOOLEAN]
  /\ moving = FALSE
  /\ entered = TRUE
  /\ device = [a \in Axes |-> IF a \in TwoAxes THEN hardware_position[a]
                              ELSE 0]
  /\ pc = [t \in Callers |-> "idle"]
  /\ call = [t \in Callers |-> NoCall]
  /\ ncalls = 0
  /\ frame_in = NoFrame
  /\ frame_out = NoFrame
  /\ frame_n = 0

NextXyz ==
  \/ Quiet /\ GetXyzPosition(SerialCaller)
  \/ \E xyz_pos \in [1..Len(axis_names) -> {Whole(n) : n \in ArgValues}] :
       Quiet /\ MoveToXyzPosition(SerialCaller, xyz_pos)
  \/ \E t \in Callers : SendGcode(t)
  \/ \E t \in Callers : XyzGcodeOk(t)
  \/ \E t \in Callers : QueryOk(t)
  \/ \E t \in Callers : XyzAssign(t)
  \/ \E t \in Callers : Return(t)

SpecXyz == InitXyz /\ [][NextXyz]_vars

----------------------------------------------------------------------------
(* Frame translation on its own: _apply_axis_direction applied to a value,  *)
(* and again to its result, on a stage with any inversion setting.          *)

\* The values of a position: whole and not, of either sign.
FrameValues == -Whole(MaxPos)..Whole(MaxPos)

\* Ordered sequences: one value per axis, and some that are one value short
\* or long.
FrameSequences ==
  [1..Len(axis_names) -> FrameValues]
    \cup [1..(Len(axis_names) - 1) -> {0, Whole(1)}]
    \cup [1..(Len(axis_names) + 1) -> {0, Whole(1)}]

\* Mappings over any set of axes, and some with a key that is no axis.
FrameMappings ==
  UNION {[ks -> FrameValues] : ks \in SUBSET Axes}
    \cup [{"x", UnknownKey} -> {0, Whole(1)}]

\* A value to translate, tagged with its Python type.
FrameInput(kind, v) == [kind |-> kind, val |-> v, err |-> "none"]

InitFrame ==
  /\ built = "ok"
  /\ ctor = [cls |-> "SkrPicoThing", kwargs |-> {}]
  /\ hardware_position = Zeros
  /\ axis_inverted \in [Axes -> BOOLEAN]
  /\ moving = FALSE
  /\ entered = FALSE
  /\ device = Zeros
  /\ pc = [t \in Callers |-> "idle"]
  /\ call = [t \in Callers |-> NoCall]
  /\ ncalls = 0
  /\ \/ \E v \in FrameSequences : frame_in = FrameInput("seq", v)
     \/ \E v \in FrameMappings : frame_in = FrameInput("map", v)
  /\ frame_out = frame_in
  /\ frame_n = 0

\* self._apply_axis_direction(value), up to twice in a row.
Translate ==
  /\ frame_n < 2
  /\ frame_out.err = "none"
  /\ LET r == apply_axis_direction(frame_out.kind, frame_out.val, axis_inverted)
     IN frame_out' = [kind |-> frame_out.kind, val |-> r.val, err |-> r.err]
  /\ frame_n' = frame_n + 1
  /\ UNCHANGED <<frame_in, stage_vars>>

NextFrame == Translate

SpecFrame == InitFrame /\ [][NextFrame]_vars

----------------------------------------------------------------------------
(* Properties *)

Sign(inverted) == IF inverted THEN -1 ELSE 1

IsMoveCall(t) == call[t].op \in Moves

\* C1: whenever move_relative or move_absolute has returned or raised,
\* whatever the gcode post and the position query did, moving is false; and
\* moving is false whenever no call is in progress.
C1_MovingIdleOnReturn ==
  /\ \A t \in Callers : (pc[t] = "returned" /\ IsMoveCall(t)) => moving = FALSE
  /\ Quiet => moving = FALSE

\* A move whose gcode post and position query both failed has returned.
C1_Witness ==
  \E t \in Callers :
    /\ pc[t] = "returned" /\ IsMoveCall(t)
    /\ call[t].gres = "transport" /\ call[t].exc = "HTTPError:query"
    /\ ~moving

\* C2: with actions invoked one at a time, moving is true from before the
\* gcode request of a move leaves until it is answered or fails.
C2_MovingWhileGcodeInFlight ==
  \A t \in Callers :
    (IsMoveCall(t) /\ pc[t] \in {"send", "gcode"}) => moving = TRUE

\* The gcode request of a move is in flight.
C2_Witness ==
  \E t \in Callers : IsMoveCall(t) /\ pc[t] = "gcode" /\ moving

\* C3: the position read is the hardware position with the sign of every
\* inverted axis flipped, in every state of a constructed stage.
C3_PositionIsSignedHardwarePosition ==
  Ready =>
    \A a \in Axes : position[a] = hardware_position[a] * Sign(axis_inverted[a])

\* C4: translating an integer-valued position (a full sequence, or a mapping
\* over axes) twice under the same inversion gives back the position.
IntegerValued(v) == \A k \in DOMAIN v : IsWhole(v[k])

C4_Applicable ==
  /\ IntegerValued(frame_in.val)
  /\ \/ frame_in.kind = "seq" /\ Len(frame_in.val) = Len(axis_names)
     \/ frame_in.kind = "map" /\ DOMAIN frame_in.val \subseteq Axes

C4_TranslationIsInvolution ==
  C4_Applicable =>
    /\ frame_out.err = "none"
    /\ frame_n = 2 => frame_out.val = frame_in.val

\* A full sequence with a value on an inverted axis has been translated twice.
C4_Witness ==
  /\ frame_n = 2 /\ C4_Applicable /\ frame_in.kind = "seq"
  /\ \E i \in 1..Len(axis_names) :
       axis_inverted[axis_names[i]] /\ frame_in.val[i] > 0
  /\ frame_out.val = frame_in.val

\* C5: a move given a key that is no axis raises the unknown-axis KeyError
\* at once: no request is made, moving is not set, and the hardware position,
\* the inversion and the controller are left as they were.
HasUnknownKey(args) == \E k \in DOMAIN args : k \notin Axes

C5_UnknownAxisFailsBeforeHardware ==
  /\ [](\A t \in Callers :
          (IsMoveCall(t) /\ HasUnknownKey(call[t].args)) =>
            /\ pc[t] = "returned"
            /\ call[t].exc = "KeyError:axis"
            /\ call[t].req = NoReq
            /\ ~moving)
  /\ [][\A t \in Callers :
          (pc[t] = "idle" /\ IsMoveCall(t)' /\ HasUnknownKey(call[t].args)') =>
            UNCHANGED <<moving, hardware_position, axis_inverted, device>>]_vars

\* A move given an unknown key has raised.
C5_Witness ==
  \E t \in Callers :
    /\ pc[t] = "returned" /\ IsMoveCall(t)
    /\ HasUnknownKey(call[t].args) /\ call[t].exc = "KeyError:axis"

\* C6: the relative command in flight carries, for every axis, the delta
\* given times the sign of the axis, and 0 for an axis not given.
C6_RelativeCommandInHardwareFrame ==
  \A t \in Callers :
    (pc[t] = "gcode" /\ call[t].op = "move_relative") =>
      /\ call[t].req.script = "G91"
      /\ DOMAIN call[t].req.disp = Axes
      /\ \A a \in Axes :
           call[t].req.disp[a] =
             IF a \in DOMAIN call[t].args
               THEN call[t].args[a] * Sign(axis_inverted[a])
               ELSE 0

\* With inversion {x: true, y: false, z: true}, move_relative(x=1, y=1) is in
\* flight as {x: -1, y: 1, z: 0}.
C6_Witness ==
  \E t \in Callers :
    /\ pc[t] = "gcode" /\ call[t].op = "move_relative"
    /\ axis_inverted = [a \in Axes |-> a \in {"x", "z"}]
    /\ call[t].args = [a \in {"x", "y"} |-> Whole(1)]
    /\ call[t].req.disp =
         [a \in Axes |-> IF a = "x" THEN -Whole(1)
                         ELSE IF a = "y" THEN Whole(1) ELSE 0]

\* C7: construction raises RedefinedBaseMovementError exactly when the class
\* redefines move_relative or move_absolute; any other class, SkrPicoThing
\* with or without configuration arguments among them, is constructed, with
\* the hardware position zero on every axis and moving false.
C7_ConstructionFailsIffRedefined ==
  [][built = "none" /\ built' # "none" =>
       LET redefined == \/ RedefinesMoveRelative(ctor'.cls)
                        \/ RedefinesMoveAbsolute(ctor'.cls)
       IN /\ built' = "RedefinedBaseMovementError" <=> redefined
          /\ ~redefined =>
               /\ built' = "ok"
               /\ hardware_position' = Zeros
               /\ moving' = FALSE]_vars

\* C8: a move whose gcode post raised raises that error to its caller,
\* whatever the position query did afterwards.
C8_GcodeErrorPropagatedUnchanged ==
  \A t \in Callers :
    (pc[t] = "returned" /\ IsMoveCall(t) /\ call[t].gres = "transport") =>
      call[t].exc = "HTTPError:gcode"

\* C9: a move whose gcode request was answered with an error raises.
C9_ErrorResponseRaises ==
  \A t \in Callers :
    (pc[t] = "returned" /\ IsMoveCall(t) /\ call[t].gres = "error") =>
      call[t].exc # "none"

\* C10: when a move has returned normally, the hardware position is, axis by
\* axis, the toolhead position the controller reported after the command,
\* which is where the toolhead is.
C10_HardwarePositionIsReported ==
  \A t \in Callers :
    (pc[t] = "returned" /\ IsMoveCall(t) /\ call[t].exc = "none") =>
      /\ DOMAIN hardware_position = Axes
      /\ \A i \in 1..Len(axis_names) :
           hardware_position[axis_names[i]] = call[t].reported[i]
      /\ hardware_position = device

\* An absolute move has returned normally from a controller that did not
\* go where it was told.
C10_Witness ==
  \E t \in Callers :
    /\ pc[t] = "returned" /\ call[t].op = "move_absolute"
    /\ call[t].exc = "none" /\ call[t].gres = "ok"
    /\ device # call[t].req.disp
    /\ hardware_position = device

\* C11: the hardware position changes only when a move whose gcode request
\* succeeded, set_zero_position or __enter__ refreshes it: a move whose gcode
\* request failed leaves it as it was, and so does invert_axis_direction.
C11_HardwarePositionChangesOnlyOnSuccess ==
  [][(Ready /\ hardware_position' # hardware_position) =>
       \E t \in Callers :
         /\ pc[t] = "assign"
         /\ \/ call[t].op \in {"set_zero_position", "__enter__"}
            \/ IsMoveCall(t) /\ call[t].gres = "ok"]_vars

\* C12: invert_axis_direction flips the flag of a recognised axis and leaves
\* every other flag, the keys, the hardware position and moving alone (so a
\* second call undoes the first); given an axis that is none it raises
\* KeyError and leaves the inversion as it was.
C12_InvertFlipsOneAxis ==
  /\ [](Ready =>
          /\ DOMAIN axis_inverted = Axes
          /\ \A a \in Axes :
               Flipped(Flipped(axis_inverted, a), a) = axis_inverted)
  /\ [][\A t \in Callers :
          (pc[t] = "idle" /\ call[t]'.op = "invert_axis_direction") =>
            IF call[t]'.axis \in Axes
              THEN /\ call[t]'.exc = "none"
                   /\ DOMAIN axis_inverted' = Axes
                   /\ \A a \in Axes :
                        axis_inverted'[a] = IF a = call[t]'.axis
                                              THEN ~axis_inverted[a]
                                              ELSE axis_inverted[a]
                   /\ UNCHANGED <<hardware_position, moving>>
              ELSE /\ pc[t]' = "returned"
                   /\ call[t]'.exc = "KeyError:axis"
                   /\ UNCHANGED <<axis_inverted, hardware_position, moving>>]_vars
  /\ [][\A t \in Callers :
          (pc[t] = "store" /\ pc[t]' = "returned") =>
            UNCHANGED <<axis_inverted, hardware_position, moving>>]_vars

\* invert_axis_direction("x") has returned with x no longer inverted.
C12_Witness ==
  \E t \in Callers :
    /\ pc[t] = "returned" /\ call[t].op = "invert_axis_direction"
    /\ call[t].axis = "x" /\ call[t].exc = "none"
    /\ axis_inverted = [a \in Axes |-> a = "z"]

\* C15: an absolute move run exactly by the controller leaves the toolhead,
\* and then the hardware position, of every axis not named where it was.
C15_AbsoluteMoveKeepsUnnamedAxes ==
  /\ [][\A t \in Callers :
          (/\ pc[t] = "gcode" /\ call[t].op = "move_absolute"
           /\ call[t]'.gres = "ok"
           /\ device' = Target(call[t].req, device)) =>
             \A a \in Axes \ DOMAIN call[t].args : device'[a] = device[a]]_vars
  /\ [][\A t \in Callers :
          (/\ pc[t] = "assign" /\ call[t].op = "move_absolute"
           /\ call[t].gres = "ok" /\ pc[t]' = "returned") =>
             \A a \in Axes \ DOMAIN call[t].args :
               hardware_position'[a] = hardware_position[a]]_vars

\* C16: when invert_axis_direction assigns the setting, the mapping stored
\* until then is still as it was, and so differs from the one assigned.
C16_SettingAssignedIsAChange ==
  \A t \in Callers : pc[t] = "store" => axis_inverted # call[t].direction

\* C14: translating a sequence pairs the i-th value with the flag of the
\* i-th axis, and a sequence shorter or longer than the axes raises the
\* length error, under every inversion.
C14_SequencePairedStrictly ==
  (frame_in.kind = "seq" /\ frame_n >= 1) =>
    IF Len(frame_in.val) # Len(axis_names)
      THEN frame_out.err = "ValueError"
      ELSE frame_n = 1 =>
             /\ frame_out.err = "none"
             /\ Len(frame_out.val) = Len(frame_in.val)
             /\ \A i \in 1..Len(axis_names) :
                  frame_out.val[i] =
                    IntOf(frame_in.val[i]) * Sign(axis_inverted[axis_names[i]])

\* A sequence one value too long has been refused with only y inverted.
C14_Witness ==
  /\ frame_in.kind = "seq" /\ frame_n = 1
  /\ Len(frame_in.val) = Len(axis_names) + 1
  /\ axis_inverted = [a \in Axes |-> a = "y"]
  /\ frame_out.err = "ValueError"

\* C17: a move with block_cancellation true takes the stage to the same
\* state, with the same request dispatched, as the same move with it false
\* (and nothing after the entry of the move has the hint at hand), so two
\* runs that differ only in the hint make the same requests in the same
\* order and end in the same position, moving flag and outcome.
C17_CancellationHintHasNoEffect ==
  [][\A t \in Callers, op \in Moves, args \in MoveArgs :
       StartMove(t, op, args, TRUE) <=> StartMove(t, op, args, FALSE)]_vars

\* A move that displaces an axis has its request ready to leave.
C17_Witness ==
  \E t \in Callers :
    /\ IsMoveCall(t) /\ pc[t] = "send"
    /\ call[t].req.disp # Zeros

\* C18: on an entered stage whose controller answers every request, whenever
\* moving is false (and no set_zero_position is under way) the hardware
\* position is where the toolhead is.
C18_CacheConsistentWhenIdle ==
  (/\ Ready /\ entered /\ moving = FALSE
   /\ \A t \in Callers : call[t].op # "set_zero_position") =>
     hardware_position = device

\* C19: with two moves under way at once, moving is true whenever the gcode
\* request of at least one of them is in flight, and false once both calls
\* have returned.
C19_MovingWhileAnyRequestInFlight ==
  /\ (\E t \in Callers : IsMoveCall(t) /\ pc[t] = "gcode") => moving = TRUE
  /\ (\A t \in Callers : IsMoveCall(t) /\ pc[t] = "returned") =>
       moving = FALSE

\* C20: with two moves under way at once and a controller that answers every
\* request, once both calls have returned the hardware position is where the
\* toolhead is.
C20_CacheIsFinalPositionAfterBoth ==
  (\A t \in Callers : IsMoveCall(t) /\ pc[t] = "returned") =>
    hardware_position = device

\* C13: on a stage whose axes are x and y, get_xyz_position and
\* move_to_xyz_position both end with KeyError, and move_to_xyz_position
\* prepares no request.
C13_XyzOperationsFailWithKeyError ==
  \A t \in Callers :
    call[t].op \in {"get_xyz_position", "move_to_xyz_position"} =>
      /\ pc[t] = "returned"
      /\ IsKeyError(call[t].exc)
      /\ call[t].req = NoReq

====
